---- MODULE Spec2Model ----
(***************************************************************************)
(* Model of space_weather_plotter/space_weather.py: fetch_data,            *)
(* prepare_dataframe, resample_data, plot_data and the menu loop of main.  *)
(*                                                                         *)
(* JSON values and table cells are tagged records.  A Python dict is a     *)
(* sequence of key/value pairs with distinct keys, in insertion order.     *)
(* A timestamp is a number of hours since 2024-01-01T00:00Z (a Monday).    *)
(***************************************************************************)
EXTENDS Integers, Sequences, FiniteSets, TLC

VARIABLES
    \* main()
    pc, request, response, fetched, frames, diagnostics, output, uncaught,
    \* prepare_dataframe() called on its own
    data, data0, columns_mapping, nested_keys, timestamp_col, built, b_pc,
    \* resample_data() called on its own
    df, time_col, freq, resampled, r_pc

mainVars == <<pc, request, response, fetched, frames, diagnostics, output, uncaught>>
buildVars == <<data, data0, columns_mapping, nested_keys, timestamp_col, built, b_pc>>
resampleVars == <<df, time_col, freq, resampled, r_pc>>
vars == <<mainVars, buildVars, resampleVars>>

----------------------------------------------------------------------------
(* Values *)

Null == [t |-> "null"]
Str(s) == [t |-> "str", s |-> s]
Num(n) == [t |-> "num", n |-> n]
List(xs) == [t |-> "list", items |-> xs]
Dict(ps) == [t |-> "map", pairs |-> ps]
Datetime(h) == [t |-> "datetime", v |-> h]
Pair(key, val) == [k |-> key, v |-> val]

IsDict(x) == x.t = "map"
IsList(x) == x.t = "list"

\* Python truthiness of a JSON value (the test `not data`).
Truthy(x) ==
    CASE x.t = "null" -> FALSE
      [] x.t = "list" -> Len(x.items) > 0
      [] x.t = "map" -> Len(x.pairs) > 0
      [] x.t = "str" -> x.s /= ""
      [] x.t = "num" -> x.n /= 0
      [] OTHER -> TRUE

\* Iterating a JSON value: a list yields its items, a dict yields its keys.
Iterate(x) ==
    CASE x.t = "list" -> x.items
      [] x.t = "map" -> [i \in 1..Len(x.pairs) |-> Str(x.pairs[i].k)]
      [] OTHER -> <<>>

Keys(ps) == [i \in 1..Len(ps) |-> ps[i].k]
Range(s) == {s[i] : i \in 1..Len(s)}
HasKey(ps, key) == \E i \in 1..Len(ps) : ps[i].k = key

\* dict.get(key, default)
DictGet(ps, key, default) ==
    IF HasKey(ps, key)
    THEN ps[CHOOSE i \in 1..Len(ps) : ps[i].k = key].v
    ELSE default

\* d[key] = val : an existing key keeps its position, a new key goes last.
DictSet(ps, key, val) ==
    IF HasKey(ps, key)
    THEN [i \in 1..Len(ps) |-> IF ps[i].k = key THEN Pair(key, val) ELSE ps[i]]
    ELSE Append(ps, Pair(key, val))

----------------------------------------------------------------------------
(* Timestamps: str.strptime(pl.Datetime, "%Y-%m-%dT%H:%MZ") *)

\* The strings the format accepts, with the instant each denotes.
Strptime(s) ==
    CASE s = "2024-01-01T00:00Z" -> 0
      [] s = "2024-01-01T01:00Z" -> 1
      [] s = "2024-01-01T02:00Z" -> 2
      [] s = "2024-01-02T00:00Z" -> 24
      [] s = "2024-01-08T00:00Z" -> 168
      [] OTHER -> -1

MatchesFormat(s) == Strptime(s) >= 0

----------------------------------------------------------------------------
(* Tables: pl.DataFrame *)

\* pl.DataFrame()
EmptyFrame == [columns |-> <<>>, rows |-> <<>>]

Height(frame) == Len(frame.rows)
is_empty(frame) == Height(frame) = 0
HasColumn(frame, col) == \E i \in 1..Len(frame.columns) : frame.columns[i] = col
ColumnIndex(frame, col) == CHOOSE i \in 1..Len(frame.columns) : frame.columns[i] = col
Cell(frame, r, col) == frame.rows[r][ColumnIndex(frame, col)]

RECURSIVE UnionKeys(_, _)
\* The keys of the records in first-seen order.
UnionKeys(records, acc) ==
    IF records = <<>> THEN acc
    ELSE LET ks == Keys(Head(records))
             fresh == SelectSeq(ks, LAMBDA c : c \notin Range(acc))
         IN UnionKeys(Tail(records), acc \o fresh)

\* pl.DataFrame(list of dicts): one row per dict, a missing key is null.
DataFrame(records) ==
    LET cols == UnionKeys(records, <<>>)
    IN [columns |-> cols,
        rows |-> [r \in 1..Len(records) |->
                    [c \in 1..Len(cols) |-> DictGet(records[r], cols[c], Null)]]]

\* The outcome of pl.col(col).str.strptime(...) in with_columns.
StrptimeError(frame, col) ==
    IF ~HasColumn(frame, col) THEN "ColumnNotFoundError"
    ELSE IF \E r \in 1..Height(frame) : Cell(frame, r, col).t \notin {"str", "null"}
    THEN "SchemaError"
    ELSE IF \E r \in 1..Height(frame) :
                /\ Cell(frame, r, col).t = "str"
                /\ ~MatchesFormat(Cell(frame, r, col).s)
    THEN "InvalidOperationError"
    ELSE "none"

StrptimeColumn(frame, col) ==
    LET c == ColumnIndex(frame, col)
    IN [columns |-> frame.columns,
        rows |-> [r \in 1..Height(frame) |->
                    [i \in 1..Len(frame.columns) |->
                        IF i = c /\ frame.rows[r][i].t = "str"
                        THEN Datetime(Strptime(frame.rows[r][i].s))
                        ELSE frame.rows[r][i]]]]

----------------------------------------------------------------------------
(* prepare_dataframe *)

RECURSIVE RenameKeysFirstWins(_, _, _)
\* Variant of RenameKeys: a name already present keeps its first value.
RenameKeysFirstWins(pairs, mapping, acc) ==
    IF pairs = <<>> THEN acc
    ELSE LET name == DictGet(mapping, Head(pairs).k, Head(pairs).k)
         IN RenameKeysFirstWins(Tail(pairs), mapping,
                IF HasKey(acc, name) THEN acc ELSE DictSet(acc, name, Head(pairs).v))

RECURSIVE RenameKeys(_, _, _)
\* {columns_mapping.get(k, k): v for k, v in entry.items()}
RenameKeys(pairs, mapping, acc) ==
    IF pairs = <<>> THEN acc
    ELSE RenameKeys(Tail(pairs), mapping,
            DictSet(acc, DictGet(mapping, Head(pairs).k, Head(pairs).k), Head(pairs).v))

RECURSIVE ExtractSubKeys(_, _, _)
\* for sub_key, sub_col in extraction.items(): entry[sub_col] = nested_entry.get(sub_key)
ExtractSubKeys(entry, nested_entry, extraction) ==
    IF extraction = <<>> THEN entry
    ELSE ExtractSubKeys(
            DictSet(entry, Head(extraction).v,
                    DictGet(nested_entry.pairs, Head(extraction).k, Null)),
            nested_entry, Tail(extraction))

RECURSIVE ExtractEntriesFirstOnly(_, _, _)
\* Variant of ExtractEntries: stops after the first mapping of the list.
ExtractEntriesFirstOnly(entry, nested_values, extraction) ==
    IF nested_values = <<>> THEN entry
    ELSE IF IsDict(Head(nested_values))
    THEN ExtractSubKeys(entry, Head(nested_values), extraction)
    ELSE ExtractEntriesFirstOnly(entry, Tail(nested_values), extraction)

RECURSIVE ExtractEntries(_, _, _)
\* for nested_entry in nested_values: if isinstance(nested_entry, dict): ...
ExtractEntries(entry, nested_values, extraction) ==
    IF nested_values = <<>> THEN entry
    ELSE ExtractEntries(
            IF IsDict(Head(nested_values))
            THEN ExtractSubKeys(entry, Head(nested_values), extraction)
            ELSE entry,
            Tail(nested_values), extraction)

RECURSIVE ExtractKeys(_, _)
\* for nested_key, extraction in nested_keys.items(): ...
ExtractKeys(entry, specs) ==
    IF specs = <<>> THEN entry
    ELSE LET nested_values == DictGet(entry, Head(specs).k, List(<<>>))
         IN ExtractKeys(
                IF IsList(nested_values)
                THEN ExtractEntries(entry, nested_values.items, Head(specs).v)
                ELSE entry,
                Tail(specs))

extract_nested(entry, nested) ==
    IF ~IsDict(nested) THEN entry ELSE ExtractKeys(entry, nested.pairs)

RECURSIVE LeadingMappings(_)
LeadingMappings(items) ==
    IF items = <<>> \/ ~IsDict(Head(items)) THEN <<>>
    ELSE <<Head(items)>> \o LeadingMappings(Tail(items))

\* Variant of MappingEntries: stops at the first entry that is no mapping.
MappingEntriesUntilOther(d) == LeadingMappings(Iterate(d))

\* The entries the comprehension keeps: if isinstance(entry, dict).
MappingEntries(d) == SelectSeq(Iterate(d), IsDict)

processed_data(d, mapping, nested) ==
    LET kept == MappingEntries(d)
    IN [i \in 1..Len(kept) |->
            extract_nested(RenameKeys(kept[i].pairs, mapping, <<>>), nested)]

\* The value prepare_dataframe returns, or the exception it raises.
prepare_dataframe(d, mapping, nested, ts_col) ==
    IF ~Truthy(d) THEN [exc |-> "none", df |-> EmptyFrame]
    ELSE LET frame == DataFrame(processed_data(d, mapping, nested))
         IN IF ts_col /= "None" /\ HasColumn(frame, ts_col)
            THEN IF StrptimeError(frame, ts_col) /= "none"
                 THEN [exc |-> StrptimeError(frame, ts_col), df |-> EmptyFrame]
                 ELSE [exc |-> "none", df |-> StrptimeColumn(frame, ts_col)]
            ELSE [exc |-> "none", df |-> frame]

\* What the call leaves in the caller's list: the comprehension builds new
\* dicts, and extract_nested writes to those only.
InputAfterPrepare(d, mapping, nested) == d

----------------------------------------------------------------------------
(* resample_data *)

\* The bucket width, in hours, of the strings group_by_dynamic accepts as
\* `every`; 0 for a string it rejects.
Every(f) ==
    CASE f = "1h" -> 1
      [] f = "1d" -> 24
      [] f = "1w" -> 168
      [] OTHER -> 0

Recognized(f) == Every(f) > 0

\* The start of the window of width w that holds instant h.
Truncate(h, w) == h - (h % w)

IsSorted(times) == \A i \in 1..(Len(times) - 1) : times[i] <= times[i + 1]

RECURSIVE Buckets(_, _, _)
\* One scan of the sorted index column: a row joins the last window or opens
\* the next one.
Buckets(times, w, acc) ==
    IF times = <<>> THEN acc
    ELSE LET start == Truncate(Head(times), w)
         IN IF acc /= <<>> /\ acc[Len(acc)].start = start
            THEN Buckets(Tail(times), w,
                    [acc EXCEPT ![Len(acc)].len = acc[Len(acc)].len + 1])
            ELSE Buckets(Tail(times), w, Append(acc, [start |-> start, len |-> 1]))

\* The outcome of df.group_by_dynamic(col, every=f) on a datetime column.
GroupByDynamicError(frame, col, f) ==
    IF ~Recognized(f) THEN "InvalidOperationError"
    ELSE IF ~IsSorted([r \in 1..Height(frame) |-> Cell(frame, r, col).v])
    THEN "InvalidOperationError"
    ELSE "none"

\* df.group_by_dynamic(col, every=f).agg(pl.len())
GroupByDynamicLen(frame, col, f) ==
    LET bs == Buckets([r \in 1..Height(frame) |-> Cell(frame, r, col).v], Every(f), <<>>)
    IN [columns |-> <<col, "len">>,
        rows |-> [i \in 1..Len(bs) |-> <<Datetime(bs[i].start), Num(bs[i].len)>>]]

Raise(exc, msg, steps) == [exc |-> exc, msg |-> msg, df |-> EmptyFrame, steps |-> steps]

\* Variant of resample_data: the emptiness test comes after the parsing.
resample_data_late_check(frame, col, f) ==
    LET e1 == StrptimeError(frame, col)
    IN IF e1 = "InvalidOperationError"
       THEN Raise("ValueError", "invalid frequency", <<"strptime">>)
       ELSE IF e1 /= "none"
       THEN Raise(e1, "", <<"strptime">>)
       ELSE IF is_empty(frame)
       THEN Raise("ValueError", "empty dataframe", <<"strptime", "is_empty">>)
       ELSE LET parsed == StrptimeColumn(frame, col)
                e2 == GroupByDynamicError(parsed, col, f)
                all == <<"strptime", "is_empty", "group_by_dynamic">>
            IN IF e2 = "InvalidOperationError"
               THEN Raise("ValueError", "invalid frequency", all)
               ELSE [exc |-> "none", msg |-> "",
                     df |-> GroupByDynamicLen(parsed, col, f), steps |-> all]

\* The value resample_data returns or the exception it raises; steps lists
\* the operations it started, in order.
resample_data(frame, col, f) ==
    IF is_empty(frame)
    THEN Raise("ValueError", "empty dataframe", <<"is_empty">>)
    ELSE LET e1 == StrptimeError(frame, col)
         IN IF e1 = "InvalidOperationError"
            THEN Raise("ValueError", "invalid frequency", <<"is_empty", "strptime">>)
            ELSE IF e1 /= "none"
            THEN Raise(e1, "", <<"is_empty", "strptime">>)
            ELSE LET parsed == StrptimeColumn(frame, col)
                     e2 == GroupByDynamicError(parsed, col, f)
                     all == <<"is_empty", "strptime", "group_by_dynamic">>
                 IN IF e2 = "InvalidOperationError"
                    THEN Raise("ValueError", "invalid frequency", all)
                    ELSE [exc |-> "none", msg |-> "",
                          df |-> GroupByDynamicLen(parsed, col, f), steps |-> all]

----------------------------------------------------------------------------
(* plot_data *)

\* What plot_data does with the frame: the "No data available" line, the
\* figure shown, or the exception of df[x_col] / df[y_col].
plot_data(frame, x_col, y_col, kind) ==
    IF is_empty(frame) THEN [exc |-> "none", out |-> "No data available"]
    ELSE IF /\ kind \in {"line_dot", "line", "bar"}
            /\ ~(HasColumn(frame, x_col) /\ HasColumn(frame, y_col))
    THEN [exc |-> "ColumnNotFoundError", out |-> "nothing"]
    ELSE [exc |-> "none", out |-> "show"]

----------------------------------------------------------------------------
(* fetch_data *)

BASE_URL == "https://api.nasa.gov/DONKI/"

\* The request fetch_data sends: the caller's params with api_key added.
Request(endpoint, params) ==
    [url |-> <<BASE_URL, endpoint>>, params |-> params \cup {"api_key"}]

\* Variant of fetch_data: every status below 500 counts as a success.
fetch_data_below_500(resp) ==
    IF resp.status_code < 500
    THEN [ret |-> resp.json, printed |-> FALSE, exc |-> "none"]
    ELSE [ret |-> Null, printed |-> TRUE, exc |-> "none"]

\* The value fetch_data returns for a response, and whether it printed the
\* "Error: <status> - <text>" line.
fetch_data(resp) ==
    IF resp.status_code = 200
    THEN [ret |-> resp.json, printed |-> FALSE, exc |-> "none"]
    ELSE [ret |-> Null, printed |-> TRUE, exc |-> "none"]

----------------------------------------------------------------------------
(* The arguments main passes (lines 179-198) *)

flare_columns == <<Pair("beginTime", "time"), Pair("classType", "intensity")>>
storm_columns == <<Pair("startTime", "time")>>
storm_nested_col ==
    Dict(<<Pair("allKpIndex", <<Pair("observedTime", "time"), Pair("kpIndex", "kp_index")>>)>>)
wind_columns == <<Pair("time21_5", "time")>>
wind_nested_col ==
    Dict(<<Pair("cmeInputs", <<Pair("cmeStartTime", "time"), Pair("speed", "speed")>>)>>)

----------------------------------------------------------------------------
(* prepare_dataframe on its own: the inputs *)

MaxEntries == 2

KpFirst == Dict(<<Pair("observedTime", Str("2024-01-01T01:00Z")), Pair("kpIndex", Num(6))>>)
KpLast == Dict(<<Pair("observedTime", Str("2024-01-01T02:00Z"))>>)

\* Values met under allKpIndex: a list of two mappings among other items
\* (the last one without kpIndex), a list without a mapping, a bare mapping.
NestedValues ==
    { List(<<KpFirst, Str("junk"), KpLast, Null>>),
      List(<<Str("junk")>>),
      KpFirst }

PlainFields ==
    { Pair("beginTime", Str("2024-01-01T00:00Z")),
      Pair("time", Str("2024-01-02T00:00Z")),
      Pair("classType", Str("M1")) }

NestedFields == {Pair("allKpIndex", x) : x \in NestedValues}

Records ==
    {Dict(<<f>>) : f \in PlainFields \cup NestedFields \cup {Pair("time", Str("yesterday"))}}
    \cup {Dict(<<fg[1], fg[2]>>) :
            fg \in {x \in PlainFields \X (PlainFields \cup NestedFields) : x[1].k /= x[2].k}}

NonMappings == {Str("junk"), Null}

RECURSIVE SeqsUpTo(_, _)
SeqsUpTo(S, n) ==
    IF n = 0 THEN {<<>>}
    ELSE LET shorter == SeqsUpTo(S, n - 1)
         IN shorter \cup {Append(q, x) : q \in shorter, x \in S}

\* What fetch_data may hand over: None, a list, or a JSON object.
DataInputs ==
    {Null, Dict(<<Pair("key", Str("value"))>>)}
    \cup {List(q) : q \in SeqsUpTo(Records \cup NonMappings, MaxEntries)}

MainIdle ==
    /\ pc = "idle"
    /\ request = Null
    /\ response = Null
    /\ fetched = Null
    /\ frames = Null
    /\ diagnostics = 0
    /\ output = "none"
    /\ uncaught = Null

BuildIdle ==
    /\ data = Null
    /\ data0 = Null
    /\ columns_mapping = <<>>
    /\ nested_keys = Null
    /\ timestamp_col = "None"
    /\ built = Null
    /\ b_pc = "idle"

ResampleIdle ==
    /\ df = EmptyFrame
    /\ time_col = "None"
    /\ freq = "None"
    /\ resampled = Null
    /\ r_pc = "idle"

BuildInit ==
    /\ data \in DataInputs
    /\ data0 = data
    /\ columns_mapping \in {flare_columns, storm_columns}
    /\ nested_keys \in {Null, Str("time"), storm_nested_col}
    /\ timestamp_col \in {"None", "time"}
    /\ built = Null
    /\ b_pc = "call"
    /\ MainIdle
    /\ ResampleIdle

\* prepare_dataframe(data, columns_mapping, nested_keys, timestamp_col)
PrepareDataframe ==
    /\ b_pc = "call"
    /\ built' = prepare_dataframe(data, columns_mapping, nested_keys, timestamp_col)
    /\ data' = InputAfterPrepare(data, columns_mapping, nested_keys)
    /\ b_pc' = IF built'.exc = "none" THEN "returned" ELSE "raised"
    /\ UNCHANGED <<data0, columns_mapping, nested_keys, timestamp_col>>
    /\ UNCHANGED <<mainVars, resampleVars>>

BuildNext == PrepareDataframe

SpecBuild == BuildInit /\ [][BuildNext]_vars

----------------------------------------------------------------------------
(* Properties of prepare_dataframe, stated on the input and the result *)

\* The mapping-typed entries of the input, in input order.
InputMappings ==
    IF data0.t = "list" THEN SelectSeq(data0.items, LAMBDA e : e.t = "map") ELSE <<>>

\* The name a key of a record gets.
Dest(key) ==
    IF \E m \in Range(columns_mapping) : m.k = key
    THEN (CHOOSE m \in Range(columns_mapping) : m.k = key).v
    ELSE key

\* Key j of record e is the last key of e that gets its name.
LastForDest(e, j) ==
    \A j2 \in (j + 1)..Len(e.pairs) : Dest(e.pairs[j2].k) /= Dest(e.pairs[j].k)

\* The value a record holds under column c once renamed ("absent" if none).
RenamedValue(e, c) ==
    IF \E j \in 1..Len(e.pairs) : Dest(e.pairs[j].k) = c
    THEN e.pairs[CHOOSE j \in 1..Len(e.pairs) :
                    Dest(e.pairs[j].k) = c /\ LastForDest(e, j)].v
    ELSE [t |-> "absent"]

\* The columns nested extraction may write.
NestedDests ==
    IF nested_keys.t = "map"
    THEN {x.v : x \in UNION {Range(sp.v) : sp \in Range(nested_keys.pairs)}}
    ELSE {}

\* A value as the table holds it: the timestamp column is parsed.
Converted(val, c) ==
    IF c = timestamp_col /\ val.t = "str" THEN Datetime(Strptime(val.s)) ELSE val

\* The mapping-typed items of a list value.
MappingItems(val) == SelectSeq(val.items, LAMBDA e : e.t = "map")

\* Nested extraction finds something to extract in record e under key nk.
Extracts(e, nk) ==
    /\ RenamedValue(e, nk).t = "list"
    /\ MappingItems(RenamedValue(e, nk)) /= <<>>

\* C7: prepare_dataframe returns one row per mapping-typed entry, in input
\* order, non-mapping entries discarded; with no mapping-typed entry (empty,
\* null or only non-mappings) it returns the zero-row, zero-column table
\* whatever the other arguments.
C7_OneRowPerMapping ==
    /\ (b_pc \in {"returned", "raised"} /\ InputMappings = <<>>) =>
            (b_pc = "returned" /\ built.df = EmptyFrame)
    /\ b_pc = "returned" =>
        /\ Height(built.df) = Len(InputMappings)
        /\ \A i \in 1..Len(InputMappings) :
             \A j \in 1..Len(InputMappings[i].pairs) :
                LET p == InputMappings[i].pairs[j]
                IN (LastForDest(InputMappings[i], j) /\ Dest(p.k) \notin NestedDests) =>
                      /\ HasColumn(built.df, Dest(p.k))
                      /\ Cell(built.df, i, Dest(p.k)) = Converted(p.v, Dest(p.k))

C7_Witness ==
    /\ b_pc = "returned"
    /\ data0.t = "list"
    /\ Len(data0.items) = 2
    /\ data0.items[1].t /= "map"
    /\ Len(InputMappings) = 1
    /\ Height(built.df) = 1

DestsInOrder(e) ==
    LET n == Len(e.pairs)
        firsts == SelectSeq([j \in 1..n |-> j],
                    LAMBDA j : \A j2 \in 1..(j - 1) : Dest(e.pairs[j2].k) /= Dest(e.pairs[j].k))
    IN [x \in 1..Len(firsts) |-> Dest(e.pairs[firsts[x]].k)]

C9_NestedLastMappingWins ==
    (b_pc = "returned" /\ nested_keys.t = "map") =>
        /\ \A sp \in Range(nested_keys.pairs) :
            \A i \in 1..Len(InputMappings) :
               \A x \in Range(sp.v) :
                  LET e == InputMappings[i]
                      nested_values == RenamedValue(e, sp.k)
                      ms == MappingItems(nested_values)
                  IN IF Extracts(e, sp.k)
                     THEN /\ HasColumn(built.df, x.v)
                          /\ Cell(built.df, i, x.v) =
                                Converted(DictGet(ms[Len(ms)].pairs, x.k, Null), x.v)
                     ELSE HasColumn(built.df, x.v) =>
                            Cell(built.df, i, x.v) =
                                IF RenamedValue(e, x.v).t = "absent" THEN Null
                                ELSE Converted(RenamedValue(e, x.v), x.v)
        /\ \A c \in Range(built.df.columns) :
              \E i \in 1..Len(InputMappings) :
                 \/ RenamedValue(InputMappings[i], c).t /= "absent"
                 \/ \E sp \in Range(nested_keys.pairs) :
                       /\ Extracts(InputMappings[i], sp.k)
                       /\ \E x \in Range(sp.v) : x.v = c

\* A renamed "time" overwritten by the observedTime of the last of two
\* mappings, which has no kpIndex.
C9_Witness ==
    /\ b_pc = "returned"
    /\ nested_keys = storm_nested_col
    /\ columns_mapping = flare_columns
    /\ timestamp_col = "time"
    /\ data0 = List(<<Dict(<<Pair("beginTime", Str("2024-01-01T00:00Z")),
                            Pair("allKpIndex", List(<<KpFirst, Str("junk"), KpLast, Null>>))>>)>>)
    /\ built.df.columns = <<"time", "allKpIndex", "kp_index">>
    /\ Cell(built.df, 1, "time") = Datetime(2)
    /\ Cell(built.df, 1, "kp_index") = Null

----------------------------------------------------------------------------
(* resample_data on its own: the inputs *)

MaxRows == 4

\* Time strings: four the format accepts, one it rejects.
TimeStrings ==
    { "2024-01-01T00:00Z", "2024-01-01T01:00Z", "2024-01-01T02:00Z",
      "2024-01-02T00:00Z", "2024-01-01 00:00" }

\* The raw records of a table with a time and an intensity column.
TimedRecords(q) ==
    List([i \in 1..Len(q) |-> Dict(<<Pair("time", Str(q[i])), Pair("intensity", Num(i))>>)])

\* Tables as the Table Builder returns them, the time column left as
\* strings (timestamp_col None) or parsed (timestamp_col "time"), and the
\* zero-row table that has its two columns.
ResampleFrames ==
    LET made == {prepare_dataframe(TimedRecords(q), <<>>, Null, ts) :
                    q \in SeqsUpTo(TimeStrings, MaxRows), ts \in {"None", "time"}}
    IN {m.df : m \in {x \in made : x.exc = "none"}}
       \cup {[columns |-> <<"time", "intensity">>, rows |-> <<>>]}

ResampleInit ==
    /\ df \in ResampleFrames
    /\ time_col \in {"time", "date"}
    /\ freq \in {"1h", "1d", "1w", "invalid_frequency"}
    /\ resampled = Null
    /\ r_pc = "call"
    /\ MainIdle
    /\ BuildIdle

\* resample_data(df, time_col, freq)
ResampleData ==
    /\ r_pc = "call"
    /\ resampled' = resample_data(df, time_col, freq)
    /\ r_pc' = IF resampled'.exc = "none" THEN "returned" ELSE "raised"
    /\ UNCHANGED <<df, time_col, freq>>
    /\ UNCHANGED <<mainVars, buildVars>>

ResampleNext == ResampleData

SpecResample == ResampleInit /\ [][ResampleNext]_vars

----------------------------------------------------------------------------
(* Properties of resample_data *)

Called == r_pc \in {"returned", "raised"}

\* The time column exists and holds only strings the format accepts.
WellFormedStrings ==
    /\ HasColumn(df, time_col)
    /\ \A r \in 1..Height(df) :
          Cell(df, r, time_col).t = "str" /\ MatchesFormat(Cell(df, r, time_col).s)

\* The instants of the rows of a table of well-formed strings.
Instants == [r \in 1..Height(df) |-> Strptime(Cell(df, r, time_col).s)]

\* The result is the sparse count per bucket: starts strictly increasing,
\* each the start of a bucket some row falls in, each such bucket present
\* once with the number of rows falling in it.
BucketsCounted ==
    LET out == resampled.df
        w == Every(freq)
        starts == {Instants[r] - (Instants[r] % w) : r \in 1..Height(df)}
    IN /\ out.columns = <<time_col, "len">>
       /\ Height(out) = Cardinality(starts)
       /\ \A i \in 1..Height(out) :
            /\ out.rows[i][1].t = "datetime"
            /\ out.rows[i][1].v \in starts
            /\ out.rows[i][2] =
                 Num(Cardinality({r \in 1..Height(df) :
                        Instants[r] - (Instants[r] % w) = out.rows[i][1].v}))
       /\ \A i \in 1..(Height(out) - 1) : out.rows[i][1].v < out.rows[i + 1][1].v

\* C2: on a zero-row table resample_data raises ValueError "empty
\* dataframe" whatever the frequency and the time column name, and nothing
\* but the emptiness test has run.
C2_EmptyInputError ==
    (Called /\ Height(df) = 0) =>
        /\ resampled.exc = "ValueError"
        /\ resampled.msg = "empty dataframe"
        /\ resampled.steps = <<"is_empty">>

C2_Witness ==
    /\ r_pc = "raised"
    /\ df = EmptyFrame
    /\ time_col = "date"
    /\ freq = "invalid_frequency"
    /\ resampled.msg = "empty dataframe"

\* C3 as claimed, for tables that have the time column: on a non-empty
\* table an unrecognized frequency always gives ValueError "invalid
\* frequency".
C3_UnrecognizedGivesInvalidFrequency ==
    (Called /\ ~is_empty(df) /\ HasColumn(df, time_col) /\ ~Recognized(freq)) =>
        (resampled.exc = "ValueError" /\ resampled.msg = "invalid frequency")

\* C4 as claimed: for a non-empty table of well-formed time strings, rows in
\* any order, and a recognized frequency, resample_data returns the count
\* per non-empty bucket, bucket starts strictly increasing.
C4_BucketsForAnyRowOrder ==
    (Called /\ ~is_empty(df) /\ WellFormedStrings /\ Recognized(freq)) =>
        (resampled.exc = "none" /\ BucketsCounted)

\* C5 as claimed, on rows in ascending time order: the call succeeds, and
\* the call on the same table with its time column already parsed succeeds
\* with the same result.
C5_SameWhetherParsedOrNot ==
    (Called /\ ~is_empty(df) /\ WellFormedStrings /\ IsSorted(Instants) /\ Recognized(freq)) =>
        /\ resampled.exc = "none"
        /\ resample_data(StrptimeColumn(df, time_col), time_col, freq) = resampled

\* C10 as claimed: with a recognized frequency and a non-empty table,
\* resample_data never reports "invalid frequency".
C10_InvalidFrequencyMeansUnrecognized ==
    (Called /\ ~is_empty(df) /\ Recognized(freq)) => resampled.msg /= "invalid frequency"

\* Rows of well-formed strings in ascending order are counted per bucket.
SortedStringsBucketed ==
    (Called /\ ~is_empty(df) /\ WellFormedStrings /\ IsSorted(Instants) /\ Recognized(freq)) =>
        (resampled.exc = "none" /\ BucketsCounted)

\* Scenario C: three rows on 2024-01-01 and one on 2024-01-02 at "1d".
ScenarioC ==
    (/\ r_pc = "returned"
     /\ WellFormedStrings
     /\ Instants = <<0, 1, 2, 24>>
     /\ freq = "1d") =>
        resampled.df.rows = << <<Datetime(0), Num(3)>>, <<Datetime(24), Num(1)>> >>

----------------------------------------------------------------------------
(* main *)

Endpoints == {"FLR", "GST", "WSAEnlilSimulations"}

\* Bodies the API may answer with: no event, or events in time order.
Payloads(endpoint) ==
    CASE endpoint = "FLR" ->
            { List(<<>>),
              List(<<Dict(<<Pair("beginTime", Str("2024-01-01T00:00Z")), Pair("classType", Str("M1"))>>),
                     Dict(<<Pair("beginTime", Str("2024-01-08T00:00Z")), Pair("classType", Str("X2"))>>)>>) }
      [] endpoint = "GST" ->
            { List(<<>>),
              List(<<Dict(<<Pair("startTime", Str("2024-01-01T00:00Z")),
                            Pair("allKpIndex",
                                 List(<<Dict(<<Pair("observedTime", Str("2024-01-01T01:00Z")),
                                               Pair("kpIndex", Num(6))>>)>>))>>)>>) }
      [] OTHER ->
            { List(<<>>),
              List(<<Dict(<<Pair("time21_5", Str("2024-01-02T00:00Z")),
                            Pair("cmeInputs",
                                 List(<<Dict(<<Pair("cmeStartTime", Str("2024-01-01T02:00Z")),
                                               Pair("speed", Num(500))>>)>>))>>)>>) }

Responses(endpoint) ==
    [status_code : {200, 404, 500}, json : Payloads(endpoint)]

NoException == [exc |-> "none", msg |-> "", at |-> "none", dataset |-> "none"]

Init ==
    /\ pc = "fetch_flares"
    /\ request = Null
    /\ response = [e \in Endpoints |-> Null]
    /\ fetched = [e \in Endpoints |-> Null]
    /\ frames = [e \in Endpoints |-> EmptyFrame]
    /\ diagnostics = 0
    /\ output = "Fetching current space weather data"
    /\ uncaught = NoException
    /\ BuildIdle
    /\ ResampleIdle

\* dataset = fetch_data(endpoint, params); dataset_df = prepare_dataframe(...)
FetchAndPrepare(endpoint, mapping, nested, ts_col, next) ==
    \E resp \in Responses(endpoint) :
        LET got == fetch_data(resp)
            made == prepare_dataframe(got.ret, mapping, nested, ts_col)
        IN /\ request' = Request(endpoint, {"startDate", "endDate"})
           /\ response' = [response EXCEPT ![endpoint] = resp]
           /\ IF got.exc /= "none"
              THEN /\ uncaught' = [exc |-> got.exc, msg |-> "", at |-> "fetch_data",
                                   dataset |-> endpoint]
                   /\ pc' = "crashed"
                   /\ UNCHANGED <<fetched, frames, diagnostics>>
              ELSE /\ fetched' = [fetched EXCEPT ![endpoint] = got.ret]
                   /\ diagnostics' = diagnostics + (IF got.printed THEN 1 ELSE 0)
                   /\ IF made.exc /= "none"
                      THEN /\ uncaught' = [exc |-> made.exc, msg |-> "",
                                           at |-> "prepare_dataframe", dataset |-> endpoint]
                           /\ pc' = "crashed"
                           /\ UNCHANGED frames
                      ELSE /\ frames' = [frames EXCEPT ![endpoint] = made.df]
                           /\ pc' = next
                           /\ UNCHANGED uncaught
           /\ UNCHANGED output
           /\ UNCHANGED <<buildVars, resampleVars>>

\* Lines 179-182: "time" is passed in the place of nested_keys.
FetchFlares ==
    /\ pc = "fetch_flares"
    /\ FetchAndPrepare("FLR", flare_columns, Str("time"), "None", "fetch_storms")

\* Lines 185-191
FetchStorms ==
    /\ pc = "fetch_storms"
    /\ FetchAndPrepare("GST", storm_columns, storm_nested_col, "time", "fetch_wind")

\* Lines 194-198
FetchWind ==
    /\ pc = "fetch_wind"
    /\ FetchAndPrepare("WSAEnlilSimulations", wind_columns, wind_nested_col, "time", "menu")

\* plot_data(frame, x_col, y_col, ...) from the menu loop
Plot(frame, x_col, y_col, kind, dataset) ==
    LET shown == plot_data(frame, x_col, y_col, kind)
    IN IF shown.exc /= "none"
       THEN /\ uncaught' = [exc |-> shown.exc, msg |-> "", at |-> "plot_data",
                            dataset |-> dataset]
            /\ pc' = "crashed"
            /\ UNCHANGED output
       ELSE /\ output' = shown.out
            /\ UNCHANGED <<pc, uncaught>>

\* choice == "1"
ChooseFlares ==
    /\ pc = "menu"
    /\ LET res == resample_data(frames["FLR"], "time", "1w")
       IN IF res.exc /= "none"
          THEN /\ uncaught' = [exc |-> res.exc, msg |-> res.msg, at |-> "resample_data",
                               dataset |-> "FLR"]
               /\ pc' = "crashed"
               /\ UNCHANGED output
          ELSE Plot(res.df, "time", "len", "bar", "FLR")
    /\ UNCHANGED <<request, response, fetched, frames, diagnostics>>
    /\ UNCHANGED <<buildVars, resampleVars>>

\* choice == "2"
ChooseStorms ==
    /\ pc = "menu"
    /\ Plot(frames["GST"], "time", "kp_index", "line_dot", "GST")
    /\ UNCHANGED <<request, response, fetched, frames, diagnostics>>
    /\ UNCHANGED <<buildVars, resampleVars>>

\* choice == "3"
ChooseWind ==
    /\ pc = "menu"
    /\ Plot(frames["WSAEnlilSimulations"], "time", "speed", "line", "WSAEnlilSimulations")
    /\ UNCHANGED <<request, response, fetched, frames, diagnostics>>
    /\ UNCHANGED <<buildVars, resampleVars>>

\* choice == "4"
ChooseExit ==
    /\ pc = "menu"
    /\ output' = "Exiting the program. Goodbye!"
    /\ pc' = "exit"
    /\ UNCHANGED <<request, response, fetched, frames, diagnostics, uncaught>>
    /\ UNCHANGED <<buildVars, resampleVars>>

\* any other input
ChooseInvalid ==
    /\ pc = "menu"
    /\ output' = "Invalid choice. Please try again."
    /\ UNCHANGED <<pc, request, response, fetched, frames, diagnostics, uncaught>>
    /\ UNCHANGED <<buildVars, resampleVars>>

Next ==
    \/ FetchFlares
    \/ FetchStorms
    \/ FetchWind
    \/ ChooseFlares
    \/ ChooseStorms
    \/ ChooseWind
    \/ ChooseExit
    \/ ChooseInvalid

Spec == Init /\ [][Next]_vars

----------------------------------------------------------------------------
(* Properties of main and fetch_data *)

Failed(e) == response[e] /= Null /\ response[e].status_code /= 200

\* C1 as claimed: no stage raises on a dataset whose fetch failed.
C1_NoFailureAfterFailedFetch ==
    uncaught.exc /= "none" => ~Failed(uncaught.dataset)

\* C6: fetch_data returns the decoded body for status 200 and None for any
\* other status, then with one diagnostic line printed, and never raises.
C6_FetchResult ==
    /\ \A e \in Endpoints :
          response[e] /= Null =>
             fetched[e] = IF response[e].status_code = 200 THEN response[e].json ELSE Null
    /\ diagnostics = Cardinality({e \in Endpoints : Failed(e)})
    /\ uncaught.at /= "fetch_data"

C6_Witness ==
    /\ pc = "menu"
    /\ response["FLR"].status_code = 404
    /\ fetched["FLR"] = Null
    /\ response["GST"].status_code = 200
    /\ fetched["GST"] = response["GST"].json
    /\ Truthy(fetched["GST"])
    /\ diagnostics = 1

====
